---- MODULE Spec2Model ----
(***************************************************************************)
(* A model of the MMB container tool (src/main.py).  The container file is *)
(* a flat sequence of bytes; every operation is the sequence of positioned *)
(* reads and writes that its handler performs on that file.                *)
(*                                                                         *)
(* The geometry is scaled: NumSlots stands for the 511 slots and SlotSize  *)
(* for the 200 KiB of one slot.  The header, the 16-byte catalog records   *)
(* and the 12-byte name field keep their real sizes.  As in the real       *)
(* layout (8192 = 16 + 511 * 16) the payload region starts right after    *)
(* the last catalog record, and the payload region is longer than any     *)
(* name the model writes (NumSlots * SlotSize >= 12, the bytes by which    *)
(* twelve two-byte characters exceed the name field), as the real one is.  *)
(***************************************************************************)
EXTENDS Integers, Sequences, FiniteSets, TLC

NumSlots == 4
SlotSize == 3
MaxOps == 1

HeaderSize == 16
RecordSize == 16
NameSize == 12
PaddingSize == 3
StatusOffset == 15
MappingSize == 8

DataStart == HeaderSize + NumSlots * RecordSize
FileSize == DataStart + NumSlots * SlotSize

Slots == 0 .. (NumSlots - 1)

Min(a, b) == IF a < b THEN a ELSE b
Max(a, b) == IF a > b THEN a ELSE b

Zeros(n) == [k \in 1 .. n |-> 0]

(***************************************************************************)
(* The file primitives: f.seek(pos); f.read(n) and f.seek(pos); f.write(bs)*)
(* on a file opened in binary mode.  A write past the end extends the      *)
(* file, a gap is filled with zero bytes.                                  *)
(***************************************************************************)
ReadAt(f, pos, n) == SubSeq(f, pos + 1, Min(pos + n, Len(f)))

WriteAt(f, pos, bs) ==
    IF bs = <<>> THEN f
    ELSE [k \in 1 .. Max(Len(f), pos + Len(bs)) |->
            IF k > pos /\ k <= pos + Len(bs) THEN bs[k - pos]
            ELSE IF k <= Len(f) THEN f[k]
            ELSE 0]

\* A list of positioned writes <<pos, bytes>>, applied in order.
RECURSIVE ApplyWrites(_, _)
ApplyWrites(f, ws) ==
    IF ws = <<>> THEN f
    ELSE ApplyWrites(WriteAt(f, Head(ws)[1], Head(ws)[2]), Tail(ws))

(***************************************************************************)
(* index(s): the argument type of every slot index.  An integer within     *)
(* 0 <= i <= 511 is returned; for any other integer the function RETURNS   *)
(* (does not raise) a ValueError object, which then is the argument value. *)
(***************************************************************************)
index(s) ==
    IF 0 <= s /\ s <= NumSlots
    THEN [tag |-> "int", i |-> s]
    ELSE [tag |-> "ValueError", i |-> s]

None == [tag |-> "None", i |-> 0]

(***************************************************************************)
(* Status byte.                                                            *)
(***************************************************************************)
parse_status(status) ==
    LET b == status[1]
    IN  IF b = 0 THEN "READONLY"
        ELSE IF 1 <= b /\ b <= 127 THEN "READWRITE"
        ELSE IF 128 <= b /\ b <= 254 THEN "UNFORMATTED"
        ELSE "INVALID"

as_status(status) ==
    CASE status = "INVALID" -> <<255>>
      [] status = "READONLY" -> <<0>>
      [] status = "READWRITE" -> <<15>>
      [] status = "UNFORMATTED" -> <<240>>

(***************************************************************************)
(* Names.  A string is a sequence of code points; str.encode('utf-8') and  *)
(* bytes.decode('utf-8') are modelled on code points below U+110000        *)
(* (surrogates, which Python refuses to encode, are not among the inputs). *)
(***************************************************************************)
utf8(c) ==
    IF c < 128 THEN <<c>>
    ELSE IF c < 2048 THEN <<192 + (c \div 64), 128 + (c % 64)>>
    ELSE IF c < 65536
         THEN <<224 + (c \div 4096), 128 + ((c \div 64) % 64), 128 + (c % 64)>>
    ELSE <<240 + (c \div 262144), 128 + ((c \div 4096) % 64),
           128 + ((c \div 64) % 64), 128 + (c % 64)>>

RECURSIVE encode(_)
encode(s) == IF s = <<>> THEN <<>> ELSE utf8(Head(s)) \o encode(Tail(s))

\* A faulty as_name that cuts the name one character short.
as_name_short(s) ==
    LET t == SubSeq(s, 1, Min(Len(s), NameSize - 1))
    IN  encode(t \o Zeros(NameSize - Len(t)))

\* s[:12]; s += '\x00' * (12 - len(s)); s.encode('utf-8')
as_name(s) ==
    LET t == SubSeq(s, 1, Min(Len(s), NameSize))
    IN  encode(t \o Zeros(NameSize - Len(t)))

IsCont(b) == 128 <= b /\ b <= 191

\* The number of bytes of the UTF-8 sequence that starts with lead byte b
\* (0: b cannot start a sequence).
SeqLen(b) ==
    IF b < 128 THEN 1
    ELSE IF 194 <= b /\ b <= 223 THEN 2
    ELSE IF 224 <= b /\ b <= 239 THEN 3
    ELSE IF 240 <= b /\ b <= 244 THEN 4
    ELSE 0

\* bytes.decode('utf-8'): [ok |-> FALSE] stands for UnicodeDecodeError.
RECURSIVE decode(_)
decode(bs) ==
    IF bs = <<>> THEN [ok |-> TRUE, s |-> <<>>]
    ELSE LET n == SeqLen(bs[1])
         IN  IF n = 0 \/ n > Len(bs) \/ \E k \in 2 .. n : ~IsCont(bs[k])
             THEN [ok |-> FALSE, s |-> <<>>]
             ELSE LET c == CASE n = 1 -> bs[1]
                             [] n = 2 -> (bs[1] - 192) * 64 + (bs[2] - 128)
                             [] n = 3 -> (bs[1] - 224) * 4096 + (bs[2] - 128) * 64
                                         + (bs[3] - 128)
                             [] n = 4 -> (bs[1] - 240) * 262144 + (bs[2] - 128) * 4096
                                         + (bs[3] - 128) * 64 + (bs[4] - 128)
                      r == decode(SubSeq(bs, n + 1, Len(bs)))
                  IN  [ok |-> r.ok, s |-> IF r.ok THEN <<c>> \o r.s ELSE <<>>]

\* bytes.rstrip(b' \t\n\r\x00')
RECURSIVE rstrip(_)
rstrip(bs) ==
    IF bs # <<>> /\ bs[Len(bs)] \in {32, 9, 10, 13, 0}
    THEN rstrip(SubSeq(bs, 1, Len(bs) - 1))
    ELSE bs

parse_name(s) == decode(rstrip(s))

(***************************************************************************)
(* Reading the header and the catalog.                                     *)
(***************************************************************************)
read_mapping(f) ==
    LET mapping == ReadAt(f, 0, MappingSize)
    IN  [d \in 1 .. 4 |-> mapping[4 + d] * 256 + mapping[d]]

RecordPos(i) == HeaderSize + i * RecordSize
\* A faulty payload offset that counts the slots from 1.
PayloadPos_from_one(i) == DataStart + (i + 1) * SlotSize

PayloadPos(i) == DataStart + i * SlotSize

\* [ok |-> FALSE] stands for the UnicodeDecodeError of a name field that is
\* no valid UTF-8; the catalog is then never returned.
read_catalog(f) ==
    LET disks == [i \in Slots |->
                    LET name == parse_name(ReadAt(f, RecordPos(i), NameSize))
                    IN  [name   |-> name,
                         status |-> parse_status(
                                       ReadAt(f, RecordPos(i) + StatusOffset, 1))]]
    IN  [ok |-> \A i \in Slots : disks[i].name.ok, disks |-> disks]

is_formatted(disk) == disk.status \in {"READONLY", "READWRITE"}

(***************************************************************************)
(* The outcome of a handler: the file as it leaves it, and "ok" or the     *)
(* exception that ended it.  "Oops: ..." is a failed ensure(), which main  *)
(* reports; the other exceptions are not caught.                           *)
(***************************************************************************)
Outcome(f, res) == [f |-> f, res |-> res]

\* The writes of action_nw, in program order.
nw_writes ==
    << <<0, <<0, 1, 2, 3, 0, 0, 0, 0>> >>, <<MappingSize, Zeros(8)>> >>
    \o [k \in 1 .. NumSlots |-> <<RecordPos(k - 1) + StatusOffset, <<240>> >>]
    \o << <<FileSize - 1, <<0>> >> >>

\* open(mmb, 'wb') truncates the file.
action_nw(present, f, force) ==
    IF ~(~present \/ force) THEN Outcome(f, "Oops: file exists")
    ELSE Outcome(ApplyWrites(<<>>, nw_writes), "ok")

\* len(set([d0, d1, d2, d3])): integers are equal by value, a ValueError
\* object is equal to itself only.
distinct_count(ds) ==
    Cardinality({ds[k].i : k \in {j \in 1 .. 4 : ds[j].tag = "int"}})
    + Cardinality({j \in 1 .. 4 : ds[j].tag # "int"})

\* A faulty action_dd that lacks the uniqueness check.
action_dd_unchecked(present, f, ds) ==
    IF \E k \in 1 .. 4 : ds[k].tag # "int" THEN Outcome(f, "TypeError")
    ELSE IF ~present THEN Outcome(f, "FileNotFoundError")
    ELSE Outcome(WriteAt(f, 0, [k \in 1 .. 8 |->
                                  IF k <= 4 THEN ds[k].i % 256
                                  ELSE ds[k - 4].i \div 256]), "ok")

action_dd(present, f, ds) ==
    IF distinct_count(ds) # 4 THEN Outcome(f, "Oops: disk numbers must be unique")
    ELSE IF \E k \in 1 .. 4 : ds[k].tag # "int" THEN Outcome(f, "TypeError")
    ELSE IF ~present THEN Outcome(f, "FileNotFoundError")
    ELSE Outcome(WriteAt(f, 0, [k \in 1 .. 8 |->
                                  IF k <= 4 THEN ds[k].i % 256
                                  ELSE ds[k - 4].i \div 256]), "ok")

\* catalog[index]: "ok", or the exception of the subscript.
subscript(idx) ==
    IF idx.tag # "int" THEN "TypeError"
    ELSE IF idx.i >= NumSlots THEN "IndexError"
    ELSE "ok"

\* mk_ensurer(status): the assertion of visit.
mk_ensurer(status, disk) == disk.status = status

\* mk_marker(status): f.seek(f.tell() + 15); f.write(as_status(status)),
\* with the file positioned at the record.
mk_marker(status, f, pos) == WriteAt(f, pos + StatusOffset, as_status(status))

\* The action of visit: a marker, or the lambda of action_rn.
visit_action(act, f, pos) ==
    IF act.kind = "mark" THEN mk_marker(act.status, f, pos)
    ELSE WriteAt(f, pos, as_name(act.name))

\* A faulty loop that tests every index of the batch before it writes.
visit_loop_checked_first(f, catalog, indices, status, act) ==
    LET bad == {k \in 1 .. Len(indices) :
                    \/ subscript(indices[k]) # "ok"
                    \/ ~mk_ensurer(status, catalog[indices[k].i])}
        ws == [k \in 1 .. Len(indices) |->
                  IF act.kind = "mark"
                  THEN <<RecordPos(indices[k].i) + StatusOffset, as_status(act.status)>>
                  ELSE <<RecordPos(indices[k].i), as_name(act.name)>>]
    IN  IF bad = {} THEN Outcome(ApplyWrites(f, ws), "ok")
        ELSE LET k == CHOOSE j \in bad : \A m \in bad : j <= m
             IN  IF subscript(indices[k]) # "ok"
                 THEN Outcome(f, subscript(indices[k]))
                 ELSE Outcome(f, "Oops: disk status")

\* The loop of visit; catalog is the catalog read before the loop.
RECURSIVE visit_loop(_, _, _, _, _)
visit_loop(f, catalog, indices, status, act) ==
    IF indices = <<>> THEN Outcome(f, "ok")
    ELSE LET idx == Head(indices)
         IN  IF subscript(idx) # "ok" THEN Outcome(f, subscript(idx))
             ELSE IF ~mk_ensurer(status, catalog[idx.i])
                  THEN Outcome(f, "Oops: disk status")
             ELSE visit_loop(visit_action(act, f, RecordPos(idx.i)),
                             catalog, Tail(indices), status, act)

visit(present, f, indices, status, act) ==
    IF ~present THEN Outcome(f, "FileNotFoundError")
    ELSE LET c == read_catalog(f)
         IN  IF ~c.ok THEN Outcome(f, "UnicodeDecodeError")
             ELSE visit_loop(f, c.disks, indices, status, act)

Marker(status) == [kind |-> "mark", status |-> status, name |-> <<>>]
Renamer(name) == [kind |-> "name", status |-> "", name |-> name]

action_rm(present, f, indices) ==
    visit(present, f, indices, "READWRITE", Marker("UNFORMATTED"))

action_un(present, f, indices) ==
    visit(present, f, indices, "UNFORMATTED", Marker("READWRITE"))

action_ro(present, f, indices) ==
    visit(present, f, indices, "READWRITE", Marker("READONLY"))

action_rw(present, f, indices) ==
    visit(present, f, indices, "READONLY", Marker("READWRITE"))

action_rn(present, f, idx, name) ==
    visit(present, f, <<idx>>, "READWRITE", Renamer(name))

(***************************************************************************)
(* Import.  An SSD file is its base name (the file name without directory  *)
(* and extension) and its bytes.                                           *)
(***************************************************************************)
NoName == [tag |-> "None", s |-> <<>>]
Name(s) == [tag |-> "str", s |-> s]

\* sorted(set(range(511)) - formatted)[0], for a non-empty difference
first_available(catalog) ==
    CHOOSE i \in Slots :
        /\ ~is_formatted(catalog[i])
        /\ \A j \in Slots : ~is_formatted(catalog[j]) => i <= j

\* The index action_im works on: the argument, or the first available one.
im_index(catalog, idx) ==
    IF idx.tag = "None" THEN [tag |-> "int", i |-> first_available(catalog)]
    ELSE idx

\* The checks of action_im up to its first write: "ok" or the exception.
im_check(present, f, idx, ssd, force) ==
    IF ~present THEN "FileNotFoundError"
    ELSE LET c == read_catalog(f)
             catalog == c.disks
         IN  IF ~c.ok THEN "UnicodeDecodeError"
             ELSE IF idx.tag = "None" /\ \A i \in Slots : is_formatted(catalog[i])
                  THEN "Oops: no free indices"
             ELSE IF ~(Len(ssd.data) > 0) THEN "Oops: ssd cannot be empty"
             ELSE IF ~(Len(ssd.data) <= SlotSize) THEN "Oops: ssd too large"
             ELSE IF subscript(im_index(catalog, idx)) # "ok"
                  THEN subscript(im_index(catalog, idx))
             ELSE IF ~(~is_formatted(catalog[im_index(catalog, idx).i]) \/ force)
                  THEN "Oops: index is occupied"
             ELSE "ok"

\* The writes of action_im, in program order.  The three writes of the
\* record follow each other at the file position, the last seeks.
im_writes(i, name, readonly, disk) ==
    LET n == as_name(name)
    IN  << <<RecordPos(i), n>>,
           <<RecordPos(i) + Len(n), Zeros(PaddingSize)>>,
           <<RecordPos(i) + Len(n) + PaddingSize, IF readonly THEN <<0>> ELSE <<15>> >>,
           <<PayloadPos(i), disk>> >>

\* name, _ = os.path.splitext(os.path.basename(ssd)) when name is None
im_name(ssd, name) == IF name.tag = "None" THEN ssd.base ELSE name.s

\* A faulty action_im that writes the payload before it looks at the slot.
action_im_writes_first(present, f, idx, ssd, name, readonly, force) ==
    LET chk == im_check(present, f, idx, ssd, force)
        i == im_index(read_catalog(f).disks, idx).i
    IN  IF chk = "Oops: index is occupied"
        THEN Outcome(WriteAt(f, PayloadPos(i), ssd.data), chk)
        ELSE IF chk # "ok" THEN Outcome(f, chk)
        ELSE Outcome(ApplyWrites(f, im_writes(i, im_name(ssd, name), readonly,
                                              ssd.data)), "ok")

action_im(present, f, idx, ssd, name, readonly, force) ==
    LET chk == im_check(present, f, idx, ssd, force)
    IN  IF chk # "ok" THEN Outcome(f, chk)
    ELSE Outcome(ApplyWrites(f, im_writes(im_index(read_catalog(f).disks, idx).i,
                                          im_name(ssd, name), readonly, ssd.data)),
                 "ok")

(***************************************************************************)
(* Export: out is the exported file, as the handler leaves it.             *)
(***************************************************************************)
ex_check(present, f, idx, force, destExists) ==
    IF ~present THEN "FileNotFoundError"
    ELSE LET c == read_catalog(f)
         IN  IF ~c.ok THEN "UnicodeDecodeError"
             ELSE IF subscript(idx) # "ok" THEN subscript(idx)
             ELSE IF ~is_formatted(c.disks[idx.i]) THEN "Oops: no disk in index"
             ELSE IF ~(~destExists \/ force) THEN "Oops: file exists"
             ELSE "ok"

action_ex(present, f, idx, force, destExists, out) ==
    LET chk == ex_check(present, f, idx, force, destExists)
    IN  IF chk # "ok" THEN [f |-> f, res |-> chk, out |-> out]
    ELSE [f |-> f, res |-> "ok", out |-> ReadAt(f, PayloadPos(idx.i), SlotSize)]

(***************************************************************************)
(* Copy and move.                                                          *)
(***************************************************************************)
\* A faulty cp_check that does not look at the destination's status.
cp_check_any_dst(present, f, src, dst, force) ==
    IF ~present THEN "FileNotFoundError"
    ELSE LET c == read_catalog(f)
         IN  IF ~c.ok THEN "UnicodeDecodeError"
             ELSE IF subscript(src) # "ok" THEN subscript(src)
             ELSE IF ~is_formatted(c.disks[src.i]) THEN "Oops: no disk in index"
             ELSE IF subscript(dst) # "ok" THEN subscript(dst)
             ELSE "ok"

cp_check(present, f, src, dst, force) ==
    IF ~present THEN "FileNotFoundError"
    ELSE LET c == read_catalog(f)
             catalog == c.disks
         IN  IF ~c.ok THEN "UnicodeDecodeError"
             ELSE IF subscript(src) # "ok" THEN subscript(src)
             ELSE IF ~is_formatted(catalog[src.i]) THEN "Oops: no disk in index"
             ELSE IF subscript(dst) # "ok" THEN subscript(dst)
             ELSE IF ~(~is_formatted(catalog[dst.i]) \/ force)
                  THEN "Oops: index occupied"
             ELSE "ok"

\* A faulty cp_writes that copies the name and marks the copy read/write.
cp_writes_unlocked(f, src, dst) ==
    << <<PayloadPos(dst), ReadAt(f, PayloadPos(src), SlotSize)>>,
       <<RecordPos(dst), ReadAt(f, RecordPos(src), StatusOffset) \o as_status("READWRITE")>> >>

\* A faulty cp_writes that writes the record of dst before its payload.
cp_writes_record_first(f, src, dst) ==
    << <<RecordPos(dst), ReadAt(f, RecordPos(src), RecordSize)>>,
       <<PayloadPos(dst), ReadAt(f, PayloadPos(src), SlotSize)>> >>

\* The writes of action_cp, in program order; the record of src is read
\* after the payload has been written.
cp_writes(f, src, dst) ==
    LET disk == ReadAt(f, PayloadPos(src), SlotSize)
        g == WriteAt(f, PayloadPos(dst), disk)
        name_etc == ReadAt(g, RecordPos(src), RecordSize)
    IN  << <<PayloadPos(dst), disk>>, <<RecordPos(dst), name_etc>> >>

action_cp(present, f, src, dst, force) ==
    LET chk == cp_check(present, f, src, dst, force)
    IN  IF chk # "ok" THEN Outcome(f, chk)
    ELSE Outcome(ApplyWrites(f, cp_writes(f, src.i, dst.i)), "ok")

action_mv(present, f, src, dst, force) ==
    LET c == action_cp(present, f, src, dst, force)
    IN  IF c.res # "ok" THEN c ELSE action_rm(present, c.f, <<src>>)

(***************************************************************************)
(* The state: the container file and the file an export wrote, which       *)
(* persist, and the command of the running process with its outcome, which *)
(* are gone when the process ends.  Each run of the tool is one command.   *)
(***************************************************************************)
VARIABLES exists, mmb, exported, last, result, steps

vars == <<exists, mmb, exported, last, result, steps>>

(***************************************************************************)
(* The inputs.                                                             *)
(***************************************************************************)
\* Index arguments: below the range, the first two slots, the last slot,
\* and one past the last slot (511).
IndexArgs == {-1, 0, 1, NumSlots - 1, NumSlots}

BatchArgs ==
    {<<index(i)>> : i \in IndexArgs}
    \cup {<<index(i), index(j)>> : i \in {0, 1}, j \in {-1, 0, 1, NumSlots}}

DriveArgs ==
    {<<index(a), index(b), index(2), index(d)>> :
        a \in IndexArgs, b \in {0, 1}, d \in {NumSlots - 1, NumSlots}}

ShortName == <<71, 65, 77, 69>>
LongName == [k \in 1 .. 13 |-> 64 + k]
AccentName == [k \in 1 .. 12 |-> IF k = 12 THEN 233 ELSE 65]
WideName == [k \in 1 .. 12 |-> 233]

NameArgs == {ShortName, LongName, AccentName, WideName}

Ssd(base, n) == [base |-> base, data |-> [j \in 1 .. n |-> 16 * n + j]]

\* An import: an SSD file that fits (shorter than a slot, or exactly a
\* slot) under its own or a given name, or one of size 0 or one too large.
ImportArgs ==
    {[ssd |-> ssd, name |-> nr[1], readonly |-> nr[2], force |-> force] :
        ssd \in {Ssd(ShortName, 1), Ssd(AccentName, SlotSize)},
        nr \in {<<NoName, FALSE>>, <<NoName, TRUE>>, <<Name(LongName), FALSE>>,
                <<Name(WideName), FALSE>>},
        force \in BOOLEAN}
    \cup {[ssd |-> ssd, name |-> NoName, readonly |-> FALSE, force |-> FALSE] :
            ssd \in {Ssd(ShortName, 0), Ssd(ShortName, SlotSize + 1)}}

(***************************************************************************)
(* The containers a run starts from: none, a freshly created one, and      *)
(* containers another tool has populated: slot i holds a disk named by the *)
(* letter 'A' + i with its own payload, and the status bytes go through    *)
(* locked, unlocked, empty, invalid and a foreign unlocked value.          *)
(***************************************************************************)
Fresh == ApplyWrites(<<>>, nw_writes)

Populated(st) ==
    [k \in 1 .. FileSize |->
        LET o == k - 1
        IN  IF o < HeaderSize THEN Fresh[k]
            ELSE IF o < DataStart
                 THEN LET i == (o - HeaderSize) \div RecordSize
                          b == (o - HeaderSize) % RecordSize
                      IN  IF b = 0 THEN 65 + i
                          ELSE IF b = StatusOffset THEN st[i]
                          ELSE 0
            ELSE 100 + (o - DataStart)]

StatusPattern == <<0, 15, 240, 255, 5>>

InitContainers ==
    {Fresh, Populated([i \in Slots |-> 15])}
    \cup {Populated([i \in Slots |-> StatusPattern[((i + r) % 5) + 1]]) : r \in 0 .. 4}

Init ==
    /\ \/ exists = FALSE /\ mmb = <<>>
       \/ exists = TRUE /\ mmb \in InitContainers
    /\ exported = <<>>
    /\ last = [op |-> "none"]
    /\ result = "none"
    /\ steps = 0

\* What every command leaves: the file, the outcome, the command.
Done(r, cmd) ==
    /\ last.op = "none"
    /\ steps < MaxOps
    /\ LET o == r
       IN  mmb' = o.f /\ result' = o.res
    /\ last' = cmd
    /\ steps' = steps + 1

nw ==
    \E force \in BOOLEAN :
        LET r == action_nw(exists, mmb, force)
        IN  /\ Done(r, [op |-> "nw", force |-> force])
            /\ exists' = (exists \/ r.res = "ok")
            /\ UNCHANGED exported

dd ==
    \E ds \in DriveArgs :
        /\ Done(action_dd(exists, mmb, ds), [op |-> "dd", ds |-> ds])
        /\ UNCHANGED <<exists, exported>>

rm ==
    \E indices \in BatchArgs :
        /\ Done(action_rm(exists, mmb, indices), [op |-> "rm", indices |-> indices])
        /\ UNCHANGED <<exists, exported>>

un ==
    \E indices \in BatchArgs :
        /\ Done(action_un(exists, mmb, indices), [op |-> "un", indices |-> indices])
        /\ UNCHANGED <<exists, exported>>

ro ==
    \E indices \in BatchArgs :
        /\ Done(action_ro(exists, mmb, indices), [op |-> "ro", indices |-> indices])
        /\ UNCHANGED <<exists, exported>>

rw ==
    \E indices \in BatchArgs :
        /\ Done(action_rw(exists, mmb, indices), [op |-> "rw", indices |-> indices])
        /\ UNCHANGED <<exists, exported>>

rn ==
    \E i \in IndexArgs, name \in NameArgs :
        /\ Done(action_rn(exists, mmb, index(i), name),
                [op |-> "rn", index |-> index(i), name |-> name])
        /\ UNCHANGED <<exists, exported>>

im ==
    \E idx \in {None} \cup {index(i) : i \in IndexArgs}, a \in ImportArgs :
        /\ Done(action_im(exists, mmb, idx, a.ssd, a.name, a.readonly, a.force),
                [op |-> "im", index |-> idx, ssd |-> a.ssd, name |-> a.name,
                 readonly |-> a.readonly, force |-> a.force])
        /\ UNCHANGED <<exists, exported>>

ex ==
    \E i \in IndexArgs, fd \in {<<FALSE, FALSE>>, <<FALSE, TRUE>>, <<TRUE, TRUE>>} :
        LET r == action_ex(exists, mmb, index(i), fd[1], fd[2], exported)
        IN  /\ Done(r, [op |-> "ex", index |-> index(i), force |-> fd[1],
                        destExists |-> fd[2]])
            /\ exported' = r.out
            /\ UNCHANGED exists

cp ==
    \E s \in IndexArgs, d \in IndexArgs, force \in BOOLEAN :
        /\ Done(action_cp(exists, mmb, index(s), index(d), force),
                [op |-> "cp", src |-> index(s), dst |-> index(d), force |-> force])
        /\ UNCHANGED <<exists, exported>>

mv ==
    \E s \in IndexArgs, d \in IndexArgs, force \in BOOLEAN :
        /\ Done(action_mv(exists, mmb, index(s), index(d), force),
                [op |-> "mv", src |-> index(s), dst |-> index(d), force |-> force])
        /\ UNCHANGED <<exists, exported>>

\* main returns, or exits with status 1: the process ends, the files stay.
exit ==
    /\ last.op # "none"
    /\ last' = [op |-> "none"]
    /\ result' = "none"
    /\ UNCHANGED <<exists, mmb, exported, steps>>

Next == nw \/ dd \/ rm \/ un \/ ro \/ rw \/ rn \/ im \/ ex \/ cp \/ mv \/ exit

Spec == Init /\ [][Next]_vars

(***************************************************************************)
(* A process killed between two writes of an import or of a copy: the      *)
(* first k writes of the handler have reached the file, the rest have not. *)
(* The imports are those whose name fits the 12 bytes of the name field.   *)
(***************************************************************************)
FittingImportArgs ==
    {a \in ImportArgs : Len(as_name(im_name(a.ssd, a.name))) = NameSize}

im_killed ==
    /\ last.op = "none"
    /\ steps < MaxOps
    /\ \E idx \in {None} \cup {index(i) : i \in IndexArgs}, a \in FittingImportArgs :
        /\ im_check(exists, mmb, idx, a.ssd, a.force) = "ok"
        /\ LET ws == im_writes(im_index(read_catalog(mmb).disks, idx).i,
                               im_name(a.ssd, a.name), a.readonly, a.ssd.data)
           IN  \E k \in 0 .. 3 :
                Done(Outcome(ApplyWrites(mmb, SubSeq(ws, 1, k)), "killed"),
                     [op |-> "im", index |-> idx, ssd |-> a.ssd, name |-> a.name,
                      readonly |-> a.readonly, force |-> a.force, writes |-> k])
        /\ UNCHANGED <<exists, exported>>

cp_killed ==
    /\ last.op = "none"
    /\ steps < MaxOps
    /\ \E s \in IndexArgs, d \in IndexArgs, force \in BOOLEAN :
        /\ cp_check(exists, mmb, index(s), index(d), force) = "ok"
        /\ \E k \in 0 .. 1 :
            Done(Outcome(ApplyWrites(mmb, SubSeq(cp_writes(mmb, s, d), 1, k)), "killed"),
                 [op |-> "cp", src |-> index(s), dst |-> index(d), force |-> force,
                  writes |-> k])
        /\ UNCHANGED <<exists, exported>>

NextKilled == im \/ cp \/ im_killed \/ cp_killed \/ exit

SpecKilled == Init /\ [][NextKilled]_vars

(***************************************************************************)
(* The vocabulary of the properties.                                       *)
(***************************************************************************)
Record(f, i) == ReadAt(f, RecordPos(i), RecordSize)
Payload(f, i) == ReadAt(f, PayloadPos(i), SlotSize)
StatusByte(f, i) == f[RecordPos(i) + StatusOffset + 1]
StatusOf(f, i) == parse_status(<<StatusByte(f, i)>>)
InUse(f, i) == StatusOf(f, i) \in {"READONLY", "READWRITE"}
ValidSlot(idx) == idx.tag = "int" /\ idx.i \in Slots
Readable(f) == read_catalog(f).ok

\* The failures of ensure(): the validation failures.
Oops ==
    {"Oops: file exists", "Oops: disk numbers must be unique", "Oops: disk status",
     "Oops: no free indices", "Oops: ssd cannot be empty", "Oops: ssd too large",
     "Oops: index is occupied", "Oops: no disk in index", "Oops: index occupied"}

(***************************************************************************)
(* C1.  Import writes the payload before the catalog entry: after any      *)
(* proper prefix of the writes of an import into an Empty slot, as a kill  *)
(* of the process leaves it, the status byte of the target slot still      *)
(* decodes to Empty.                                                       *)
(***************************************************************************)
C1_PayloadBeforeStatus ==
    [][(last'.op = "im" /\ result' = "killed")
       => LET t == im_index(read_catalog(mmb).disks, last'.index).i
          IN  StatusOf(mmb, t) = "UNFORMATTED" => StatusOf(mmb', t) = "UNFORMATTED"]_vars

(***************************************************************************)
(* C2.  Overwrite protection: an import or a copy without force whose      *)
(* target slot is Unlocked or Locked fails and leaves the record and the   *)
(* payload of that slot as they were; when nothing else is wrong with the  *)
(* command, the failure is the one of the occupied slot.                   *)
(***************************************************************************)
C2_Target == IF last'.op = "im" THEN last'.index ELSE last'.dst

C3_DeleteInUse ==
    [][(/\ exists
        /\ last'.op = "rm"
        /\ Len(last'.indices) = 1
        /\ ValidSlot(last'.indices[1])
        /\ Readable(mmb)
        /\ InUse(mmb, last'.indices[1].i))
       => (result' = "ok" /\ StatusByte(mmb', last'.indices[1].i) = 240)]_vars

(***************************************************************************)
(* C4.  Move(src, dst) with src # dst, src in use (Unlocked or Locked) and *)
(* dst Empty or force given: afterwards dst holds the former payload and   *)
(* record of src, and src reports Empty.                                   *)
(***************************************************************************)
C4_MoveIsCopyThenDelete ==
    [][(/\ exists
        /\ last'.op = "mv"
        /\ ValidSlot(last'.src)
        /\ ValidSlot(last'.dst)
        /\ last'.src # last'.dst
        /\ Readable(mmb)
        /\ InUse(mmb, last'.src.i)
        /\ (StatusOf(mmb, last'.dst.i) = "UNFORMATTED" \/ last'.force))
       => /\ result' = "ok"
          /\ Payload(mmb', last'.dst.i) = Payload(mmb, last'.src.i)
          /\ Record(mmb', last'.dst.i) = Record(mmb, last'.src.i)
          /\ StatusOf(mmb', last'.src.i) = "UNFORMATTED"]_vars

(***************************************************************************)
(* C5.  After a successful Copy(src, dst) the payload and the whole        *)
(* 16-byte record of dst are those src had, and those of src are as they   *)
(* were.                                                                   *)
(***************************************************************************)
C5_CopyVerbatim ==
    [][(last'.op = "cp" /\ result' = "ok")
       => /\ Payload(mmb', last'.dst.i) = Payload(mmb, last'.src.i)
          /\ Record(mmb', last'.dst.i) = Record(mmb, last'.src.i)
          /\ Payload(mmb', last'.src.i) = Payload(mmb, last'.src.i)
          /\ Record(mmb', last'.src.i) = Record(mmb, last'.src.i)]_vars

C5_Witness ==
    /\ last.op = "cp"
    /\ result = "ok"
    /\ last.src # last.dst
    /\ StatusOf(mmb, last.dst.i) = "READONLY"
    /\ Record(mmb, last.dst.i) = Record(mmb, last.src.i)
    /\ Payload(mmb, last.dst.i) = Payload(mmb, last.src.i)

(***************************************************************************)
(* C6.  Drive-mapping uniqueness: the four values read from header bytes   *)
(* 0-7 of a container are pairwise distinct in every state; a set drive    *)
(* mapping with two equal values fails on the uniqueness check and leaves  *)
(* the 8 header bytes as they were, and one with four distinct indices is  *)
(* read back as exactly those four values, in drive order.                 *)
(***************************************************************************)
C6_Values == [k \in 1 .. 4 |-> last'.ds[k].i]

C6_DriveMappingUnique ==
    /\ [](exists => Cardinality({read_mapping(mmb)[k] : k \in 1 .. 4}) = 4)
    /\ [][(exists /\ last'.op = "dd" /\ \A k \in 1 .. 4 : last'.ds[k].tag = "int")
          => IF \E j, k \in 1 .. 4 : j # k /\ C6_Values[j] = C6_Values[k]
             THEN /\ result' = "Oops: disk numbers must be unique"
                  /\ ReadAt(mmb', 0, MappingSize) = ReadAt(mmb, 0, MappingSize)
             ELSE /\ result' = "ok"
                  /\ read_mapping(mmb') = C6_Values]_vars

C6_Witness ==
    /\ last.op = "dd"
    /\ result = "ok"
    /\ read_mapping(mmb) = <<1, 0, 2, 3>>

(***************************************************************************)
(* C7.  A command given an index outside [0, 511), 511 and the negative    *)
(* values included, fails and leaves the container as it was.              *)
(***************************************************************************)
\* The index arguments of a command.
C7_Indices(cmd) ==
    CASE cmd.op = "dd" -> {cmd.ds[k] : k \in 1 .. 4}
      [] cmd.op \in {"rm", "un", "ro", "rw"} ->
            {cmd.indices[k] : k \in 1 .. Len(cmd.indices)}
      [] cmd.op \in {"rn", "ex"} -> {cmd.index}
      [] cmd.op = "im" -> {cmd.index} \ {None}
      [] cmd.op \in {"cp", "mv"} -> {cmd.src, cmd.dst}
      [] OTHER -> {}

C7_IndexOutOfRange ==
    [][(exists /\ \E idx \in C7_Indices(last') : ~(0 <= idx.i /\ idx.i < NumSlots))
       => (result' # "ok" /\ mmb' = mmb)]_vars

(***************************************************************************)
(* C8.  A validation failure of create, set drive mapping, import, export, *)
(* copy, rename, or of a lock, unlock, delete or undelete of one index,    *)
(* leaves every byte of the container (and the files beside it) as it was. *)
(***************************************************************************)
C8_Covered(cmd) ==
    \/ cmd.op \in {"nw", "dd", "im", "ex", "cp", "rn"}
    \/ cmd.op \in {"rm", "un", "ro", "rw"} /\ Len(cmd.indices) = 1

C8_FailureWritesNothing ==
    [][(C8_Covered(last') /\ result' \in Oops)
       => (mmb' = mmb /\ exists' = exists /\ exported' = exported)]_vars

C8_Witness ==
    /\ last.op = "im"
    /\ last.force = FALSE
    /\ result = "Oops: index is occupied"

(***************************************************************************)
(* C9.  Status-byte invariant: no command writes a value outside           *)
(* {0x00, 0x0F, 0xF0} into byte 15 of a catalog record, so a container     *)
(* whose status bytes are all among these three keeps them so.             *)
(***************************************************************************)
C9_Canonical(f) == \A i \in Slots : StatusByte(f, i) \in {0, 15, 240}

C9_StatusBytes ==
    [][(exists /\ exists' /\ C9_Canonical(mmb)) => C9_Canonical(mmb')]_vars

(***************************************************************************)
(* C10.  A name is encoded to exactly 12 bytes, so a successful rename of  *)
(* slot i changes no byte outside bytes 0-11 of record i.                  *)
(***************************************************************************)
C10_RenameFrame ==
    [][(last'.op = "rn" /\ result' = "ok")
       => /\ Len(as_name(last'.name)) = NameSize
          /\ Len(mmb') = Len(mmb)
          /\ \A k \in 1 .. Len(mmb) :
                mmb'[k] # mmb[k]
                => (/\ k - 1 >= RecordPos(last'.index.i)
                    /\ k - 1 < RecordPos(last'.index.i) + NameSize)]_vars

(***************************************************************************)
(* Renames with names of every length up to 12 characters: a run of 'A's,  *)
(* followed by nothing, a letter, a space, a space and a letter, an        *)
(* accented letter (two bytes in UTF-8), or an accented letter and a       *)
(* letter.                                                                 *)
(***************************************************************************)
NameTails == {<<>>, <<66>>, <<32>>, <<32, 66>>, <<233>>, <<233, 66>>}

RoundTripNames ==
    {n \in {[k \in 1 .. m |-> 65] \o t : m \in 0 .. NameSize, t \in NameTails} :
        Len(n) <= NameSize}

rn_names ==
    \E i \in {0, 1}, name \in RoundTripNames :
        /\ Done(action_rn(exists, mmb, index(i), name),
                [op |-> "rn", index |-> index(i), name |-> name])
        /\ UNCHANGED <<exists, exported>>

NextNames == rn_names \/ exit

SpecNames == Init /\ [][NextNames]_vars

\* The name read_catalog parses from the name field of slot i.
NameOf(f, i) == parse_name(ReadAt(f, RecordPos(i), NameSize))

(***************************************************************************)
(* C11.  Name round trip.  As claimed: a name of at most 12 characters     *)
(* without null, tab, newline and carriage return, encoded into the name   *)
(* field by a rename, is decoded from that field unchanged.                *)
(***************************************************************************)
C11_Plain(n) == \A k \in 1 .. Len(n) : n[k] \notin {0, 9, 10, 13}

C11_RoundTripAsClaimed ==
    [][(/\ last'.op = "rn"
        /\ result' = "ok"
        /\ Len(last'.name) <= NameSize
        /\ C11_Plain(last'.name))
       => NameOf(mmb', last'.index.i) = [ok |-> TRUE, s |-> last'.name]]_vars

(***************************************************************************)
(* C11, amended: the round trip holds for the names whose UTF-8 encoding   *)
(* is at most 12 bytes and which do not end in a space.                    *)
(***************************************************************************)
C11_RoundTrip ==
    [][(/\ last'.op = "rn"
        /\ result' = "ok"
        /\ Len(encode(last'.name)) <= NameSize
        /\ C11_Plain(last'.name)
        /\ (last'.name = <<>> \/ last'.name[Len(last'.name)] # 32))
       => NameOf(mmb', last'.index.i) = [ok |-> TRUE, s |-> last'.name]]_vars

C11_Witness ==
    /\ last.op = "rn"
    /\ result = "ok"
    /\ Len(last.name) = NameSize - 1
    /\ last.name[Len(last.name)] = 233
    /\ NameOf(mmb, last.index.i) = [ok |-> TRUE, s |-> last.name]

(***************************************************************************)
(* C12.  The length of the container file: once the file exists it has     *)
(* the size action_nw gives it, and no command, successful or failing,     *)
(* changes that.                                                           *)
(***************************************************************************)
C12_FileLength == exists => Len(mmb) = FileSize

C12_Witness ==
    /\ exists
    /\ last.op = "im"
    /\ result = "ok"
    /\ last.index = index(NumSlots - 1)
    /\ Len(last.ssd.data) = SlotSize
    /\ Len(mmb) = FileSize

(***************************************************************************)
(* An import followed by the export of the slot it was given.              *)
(***************************************************************************)
ex_imported ==
    /\ last.op = "im"
    /\ result = "ok"
    /\ last.index.tag = "int"
    /\ LET r == action_ex(exists, mmb, last.index, TRUE, FALSE, exported)
       IN  /\ mmb' = r.f
           /\ result' = r.res
           /\ exported' = r.out
    /\ last' = [op |-> "im;ex", index |-> last.index, ssd |-> last.ssd,
                name |-> last.name]
    /\ UNCHANGED <<exists, steps>>

NextImEx == im \/ ex_imported \/ exit

SpecImEx == Init /\ [][NextImEx]_vars

(***************************************************************************)
(* C13.  Import then export: after a source of n bytes (0 < n <= slot      *)
(* size) is imported into slot i, the export of slot i writes a file of    *)
(* the slot size whose first n bytes are the source (the whole file when   *)
(* n is the slot size).                                                    *)
(***************************************************************************)
C13_ImportExport ==
    [][(last'.op = "im;ex")
       => /\ result' = "ok"
          /\ Len(exported') = SlotSize
          /\ SubSeq(exported', 1, Len(last'.ssd.data)) = last'.ssd.data]_vars

(***************************************************************************)
(* C14.  An import without an index goes to the lowest-numbered slot that  *)
(* decodes to Empty, never to an Invalid (0xFF) one: when a slot is Empty  *)
(* a successful import leaves the source in the payload of the lowest      *)
(* Empty slot, and when none is Empty the import fails for want of a free  *)
(* slot.  Stated for the sources an import accepts (1 .. SlotSize bytes).  *)
(***************************************************************************)
C14_EmptySlots(f) == {j \in Slots : StatusOf(f, j) = "UNFORMATTED"}

C14_FirstEmptySlot ==
    [][(/\ exists
        /\ last'.op = "im"
        /\ last'.index = None
        /\ Readable(mmb)
        /\ Len(last'.ssd.data) \in 1 .. SlotSize)
       => IF C14_EmptySlots(mmb) = {}
          THEN result' = "Oops: no free indices"
          ELSE result' = "ok"
               => LET e == CHOOSE j \in C14_EmptySlots(mmb) :
                               \A k \in C14_EmptySlots(mmb) : j <= k
                  IN  SubSeq(Payload(mmb', e), 1, Len(last'.ssd.data))
                          = last'.ssd.data]_vars

(***************************************************************************)
(* An import into a given slot, followed by the delete and then the        *)
(* undelete of that slot.                                                  *)
(***************************************************************************)
rm_imported ==
    /\ last.op = "im"
    /\ result = "ok"
    /\ last.index.tag = "int"
    /\ LET r == action_rm(exists, mmb, <<last.index>>)
       IN  mmb' = r.f /\ result' = r.res
    /\ last' = [op |-> "im;rm", index |-> last.index, ssd |-> last.ssd,
                name |-> last.name, readonly |-> last.readonly]
    /\ UNCHANGED <<exists, exported, steps>>

un_removed ==
    /\ last.op = "im;rm"
    /\ LET r == action_un(exists, mmb, <<last.index>>)
       IN  mmb' = r.f /\ result' = r.res
    /\ last' = [last EXCEPT !.op = "im;rm;un"]
    /\ UNCHANGED <<exists, exported, steps>>

NextRestore == im \/ rm \/ un \/ rm_imported \/ un_removed \/ exit

SpecRestore == Init /\ [][NextRestore]_vars

(***************************************************************************)
(* C15.  Delete then undelete restores the entry.  (a) An undelete         *)
(* succeeds only on slots that are Empty and leaves them Unlocked (0x0F).  *)
(* (b) A delete or an undelete changes no byte of the file other than the  *)
(* status bytes of the records it targets.  (c) After the import of a disk *)
(* named N into slot i, the delete of slot i and the undelete of slot i,   *)
(* slot i is Unlocked, is named N and holds the imported payload.          *)
(***************************************************************************)
C15_StatusOffsets(indices) ==
    {RecordPos(indices[k].i) + StatusOffset :
        k \in {j \in 1 .. Len(indices) : ValidSlot(indices[j])}}

C15_DeleteUndelete ==
    /\ [][(exists /\ last'.op = "un" /\ result' = "ok")
          => \A k \in 1 .. Len(last'.indices) :
                /\ ValidSlot(last'.indices[k])
                /\ StatusOf(mmb, last'.indices[k].i) = "UNFORMATTED"
                /\ StatusByte(mmb', last'.indices[k].i) = 15]_vars
    /\ [][(exists /\ last'.op \in {"rm", "un"})
          => /\ Len(mmb') = Len(mmb)
             /\ \A o \in 0 .. (Len(mmb) - 1) :
                    mmb'[o + 1] # mmb[o + 1]
                        => o \in C15_StatusOffsets(last'.indices)]_vars
    /\ [][(last'.op = "im;rm;un" /\ Len(im_name(last'.ssd, last'.name)) <= NameSize)
          => /\ StatusByte(mmb', last'.index.i) = 15
             /\ NameOf(mmb', last'.index.i)
                    = [ok |-> TRUE, s |-> im_name(last'.ssd, last'.name)]
             /\ SubSeq(Payload(mmb', last'.index.i), 1, Len(last'.ssd.data))
                    = last'.ssd.data]_vars

(***************************************************************************)
(* C16.  Lock (ro) succeeds only on slots that are Unlocked when they are  *)
(* processed, unlock (rw) only on slots that are then Locked, an index     *)
(* repeated within one batch included; a successful lock or unlock changes *)
(* nothing but the status bytes of its targets, to 0x00 and 0x0F.          *)
(***************************************************************************)
\* The status of the slot of indices[k] when the batch reaches it, the
\* earlier indices of the batch having been marked.
C16_StatusWhenProcessed(f, indices, k, marked) ==
    IF \E j \in 1 .. (k - 1) : indices[j] = indices[k]
    THEN marked
    ELSE StatusOf(f, indices[k].i)

C16_LockUnlock ==
    [][(exists /\ last'.op \in {"ro", "rw"} /\ result' = "ok")
       => LET indices == last'.indices
              from == IF last'.op = "ro" THEN "READWRITE" ELSE "READONLY"
              to == IF last'.op = "ro" THEN "READONLY" ELSE "READWRITE"
          IN  /\ \A k \in 1 .. Len(indices) :
                    /\ ValidSlot(indices[k])
                    /\ C16_StatusWhenProcessed(mmb, indices, k, to) = from
                    /\ StatusByte(mmb', indices[k].i) = as_status(to)[1]
              /\ Len(mmb') = Len(mmb)
              /\ \A o \in 0 .. (Len(mmb) - 1) :
                    mmb'[o + 1] # mmb[o + 1]
                        => o \in C15_StatusOffsets(indices)]_vars

(***************************************************************************)
(* C17.  Copy writes the payload of dst before the record of dst: at every *)
(* point of a copy before its catalog write, as a kill of the process      *)
(* leaves it, the 16-byte record of dst is its prior record (dst is still  *)
(* reported with its prior status), and once the payload write is done     *)
(* the payload of dst is that of src.                                      *)
(***************************************************************************)
C17_CopyPayloadFirst ==
    [][(last'.op = "cp" /\ result' = "killed")
       => /\ Record(mmb', last'.dst.i) = Record(mmb, last'.dst.i)
          /\ last'.writes = 1
                => Payload(mmb', last'.dst.i) = Payload(mmb, last'.src.i)]_vars

C17_Witness ==
    /\ last.op = "cp"
    /\ result = "killed"
    /\ last.writes = 1
    /\ last.src # last.dst
    /\ StatusOf(mmb, last.dst.i) = "UNFORMATTED"
    /\ InUse(mmb, last.src.i)
    /\ Payload(mmb, last.dst.i) = Payload(mmb, last.src.i)

(***************************************************************************)
(* C18.  A batch (rm, un, ro, rw) takes its indices one by one, in order:  *)
(* when the command fails at position k, the slots of the positions before *)
(* k have their new status byte, and the records of the slots at position  *)
(* k and later (those not also named before k) are as they were.           *)
(***************************************************************************)
C18_Required(op) ==
    CASE op = "rm" -> "READWRITE"
      [] op = "un" -> "UNFORMATTED"
      [] op = "ro" -> "READWRITE"
      [] op = "rw" -> "READONLY"

C18_Marked(op) ==
    CASE op = "rm" -> 240
      [] op = "un" -> 15
      [] op = "ro" -> 0
      [] op = "rw" -> 15

C18_Passes(f, op, idx) ==
    ValidSlot(idx) /\ StatusOf(f, idx.i) = C18_Required(op)

C18_BatchInOrder ==
    [][(/\ exists
        /\ last'.op \in {"rm", "un", "ro", "rw"}
        /\ Readable(mmb)
        /\ result' # "ok")
       => LET indices == last'.indices
              op == last'.op
          IN  \E k \in 1 .. Len(indices) :
                /\ ~C18_Passes(mmb, op, indices[k])
                /\ \A j \in 1 .. (k - 1) :
                      /\ C18_Passes(mmb, op, indices[j])
                      /\ StatusByte(mmb', indices[j].i) = C18_Marked(op)
                /\ \A j \in k .. Len(indices) :
                      (/\ ValidSlot(indices[j])
                       /\ \A m \in 1 .. (k - 1) : indices[m] # indices[j])
                      => Record(mmb', indices[j].i) = Record(mmb, indices[j].i)]_vars

C18_Witness ==
    /\ exists
    /\ last.op = "rm"
    /\ result = "Oops: disk status"
    /\ Len(last.indices) = 2
    /\ ValidSlot(last.indices[1])
    /\ ValidSlot(last.indices[2])
    /\ StatusByte(mmb, last.indices[1].i) = 240
    /\ InUse(mmb, last.indices[2].i)

(***************************************************************************)
(* C19.  Move never loses a disk: whatever src and dst (src = dst with     *)
(* force included) and whether the move succeeds or fails, the disk that   *)
(* was in src is afterwards in an in-use slot among src and dst, with its  *)
(* name and its payload.                                                   *)
(***************************************************************************)
C19_MoveKeepsDisk ==
    [][(/\ exists
        /\ last'.op = "mv"
        /\ ValidSlot(last'.src)
        /\ ValidSlot(last'.dst)
        /\ Readable(mmb)
        /\ InUse(mmb, last'.src.i))
       => \E j \in {last'.src.i, last'.dst.i} :
             /\ InUse(mmb', j)
             /\ ReadAt(mmb', RecordPos(j), NameSize)
                    = ReadAt(mmb, RecordPos(last'.src.i), NameSize)
             /\ Payload(mmb', j) = Payload(mmb, last'.src.i)]_vars

(***************************************************************************)
(* C20.  Slot isolation: an import, rename, delete, undelete, lock, unlock *)
(* copy or move leaves the drive mapping and the record and the payload of *)
(* every slot other than its targets as they were.                         *)
(***************************************************************************)
\* The slots a command targets; an import without an index targets the
\* slot it selects.
C20_Targets(f, cmd) ==
    IF cmd.op = "im" /\ cmd.index = None
    THEN IF Readable(f) /\ \E j \in Slots : ~InUse(f, j)
         THEN {first_available(read_catalog(f).disks)}
         ELSE {}
    ELSE {idx.i : idx \in {x \in C7_Indices(cmd) : ValidSlot(x)}}

C20_SlotIsolation ==
    [][(/\ exists
        /\ last'.op \in {"im", "rn", "rm", "un", "ro", "rw", "cp", "mv"})
       => /\ ReadAt(mmb', 0, HeaderSize) = ReadAt(mmb, 0, HeaderSize)
          /\ \A j \in Slots \ C20_Targets(mmb, last') :
                /\ Record(mmb', j) = Record(mmb, j)
                /\ Payload(mmb', j) = Payload(mmb, j)]_vars

====
